---- MODULE Spec2Model ----
(***************************************************************************)
(* AG_catapult: the live polling chat session (chat_session, ChatPoller    *)
(* and the message-store helpers they call), as a state machine.           *)
(*                                                                         *)
(* Two threads share displayed_ids, poller.last_id and stop_event: the     *)
(* main thread running chat_session and the ChatPoller thread.  Every      *)
(* blocking call (input(), a store round trip, time.sleep, join) ends an   *)
(* atomic step, and so does every read or write of shared memory that the  *)
(* other thread can interleave with.                                       *)
(*                                                                         *)
(* print_lock serialises output.  A thread holding it waits for nothing    *)
(* but time (slow_print sleeps between characters), so in Spec a print is  *)
(* part of the step that decides it, taken when the lock is free.  In      *)
(* SpecPrint the poller's on_new is split at the lock: slow_print holds it *)
(* from one step to a later one and every other print waits for it.        *)
(*                                                                         *)
(* The store holds the rows of this one conversation (the WHERE clause of   *)
(* every statement).  A row is represented by its id: from_user_id only    *)
(* selects the label and colour of a render, and the message text and      *)
(* created_at are payload that no branch inspects after the insert.  Each  *)
(* statement takes effect atomically and ids are handed out in insertion   *)
(* order (id SERIAL, one INSERT per transaction).                          *)
(***************************************************************************)
EXTENDS Integers, Sequences, FiniteSets, TLC

\* ---------------------------------------------------------------- bounds
MaxMsgs == 2      \* ids the store sequence hands out (1..MaxMsgs)
MaxLines == 4     \* lines one entry may accumulate

\* ------------------------------------------------------------- constants
Ids == 1..MaxMsgs
Paths == {"history", "send", "poller", "reload"}

\* ------------------------------------------------------- text (str) model
\* A str is a sequence of characters; "\n" is the newline character.
Whitespace == {" ", "\n"}

E == <<>>                                  \* the empty line
SP == <<" ">>                              \* a whitespace-only line
LR == <<"r">>
LRU == <<" ", "R">>
LC == <<"c">>
LQ == <<"=">>
HELLO == <<"h", "e", "l", "l", "o">>
WORLD == <<"w", "o", "r", "l", "d">>

\* str.lower() on the characters that occur
LowerChar(ch) ==
    CASE ch = "R" -> "r"
      [] ch = "C" -> "c"
      [] ch = "Y" -> "y"
      [] OTHER -> ch

lower(s) == [k \in 1..Len(s) |-> LowerChar(s[k])]

RECURSIVE lstrip(_)
lstrip(s) ==
    IF s = <<>> THEN <<>>
    ELSE IF Head(s) \in Whitespace THEN lstrip(Tail(s)) ELSE s

RECURSIVE rstrip(_)
rstrip(s) ==
    IF s = <<>> THEN <<>>
    ELSE IF s[Len(s)] \in Whitespace THEN rstrip(SubSeq(s, 1, Len(s) - 1)) ELSE s

\* str.strip()
strip(s) == rstrip(lstrip(s))

\* "\n".join(ls)
RECURSIVE join(_)
join(ls) ==
    IF ls = <<>> THEN <<>>
    ELSE IF Len(ls) = 1 THEN ls[1]
    ELSE ls[1] \o <<"\n">> \o join(Tail(ls))

\* ------------------------------------------------------------ store model
\* The outcome of one store call: it completed, psycopg2.connect raised, or
\* the statement raised after the connection was made.
Results == {"ok", "noconn", "error"}
Failures == {"noconn", "error"}

\* connect_db: the lines it prints ("[!] Cannot connect to server: ...")
ConnectDiag(res) == IF res = "noconn" THEN 1 ELSE 0

SeqIds(rows) == {rows[k] : k \in 1..Len(rows)}

\* ORDER BY id ASC
RECURSIVE OrderByIdAsc(_)
OrderByIdAsc(S) ==
    IF S = {} THEN <<>>
    ELSE LET m == CHOOSE r \in S : \A q \in S : r <= q
         IN <<m>> \o OrderByIdAsc(S \ {m})

get_chat_history_since_skip(st, since_id, ok) ==
    IF ok THEN OrderByIdAsc({r \in st : r > since_id + 1}) ELSE <<>>

get_chat_history_since_incl(st, since_id, ok) ==
    IF ok THEN OrderByIdAsc({r \in st : r >= since_id}) ELSE <<>>

\* get_chat_history_since: [] when the connection or the query fails
get_chat_history_since(st, since_id, ok) ==
    IF ok THEN OrderByIdAsc({r \in st : r > since_id}) ELSE <<>>

\* get_chat_history_all: [] when the connection or the query fails
get_chat_history_all(st, ok) ==
    IF ok THEN OrderByIdAsc(st) ELSE <<>>

clear_one_direction(st, ok) ==
    IF ok THEN {r \in st : r % 2 = 0} ELSE st

\* clear_chat_between: DELETE of both directions of the conversation
clear_chat_between(st, ok) ==
    IF ok THEN {} ELSE st

\* ---------------------------------------------------- session helpers
NeverDisplayed(rid, ids) == FALSE

\* on_new: "if rid in displayed_ids: return"
AlreadyDisplayed(rid, ids) == rid \in ids

AdvanceNever(last, rid) == last

\* ChatPoller.run: "if rid > self.last_id: self.last_id = rid"
Advance(last, rid) == IF rid > last THEN rid ELSE last

HistoryFirstId(rows) == IF rows = <<>> THEN 0 ELSE Head(rows)

\* chat_session: last_id = max(last_id, rid) over the history
RECURSIVE HistoryLastId(_)
HistoryLastId(rows) ==
    IF rows = <<>> THEN 0
    ELSE LET rest == HistoryLastId(Tail(rows))
         IN IF Head(rows) > rest THEN Head(rows) ELSE rest

IsReloadAnywhere(line, ls) == lower(strip(line)) = LR

\* the three command tests of the inner loop
IsReload(line, ls) == lower(strip(line)) = LR /\ ls = <<>>
IsClear(line, ls) == lower(strip(line)) = LC /\ ls = <<>>
IsQuit(line, ls) == strip(line) = LQ /\ ls = <<>>
IsCommand(line, ls) == IsReload(line, ls) \/ IsClear(line, ls) \/ IsQuit(line, ls)

IsSingleEnter(line, ls) == line = E /\ ls # <<>>

\* double enter detection
IsDoubleEnter(line, ls) == line = E /\ ls # <<>> /\ ls[Len(ls)] = E

MessageTextNoStrip(ls) == join(ls)

\* message_text = "\n".join(lines).strip()
MessageText(ls) == strip(join(ls))

JoinBlocks(exited, timedOut) == exited

\* poller.join(timeout=1.0) returns when the thread has exited or the
\* timeout has elapsed
JoinReturns(exited, timedOut) == exited \/ timedOut

\* ---------------------------------------------------------------- state
VARIABLES
    store,          \* rows of the conversation in the messages table
    nextId,         \* next value of the SERIAL id sequence
    mpc,            \* main thread: position in chat_session
    ppc,            \* poller thread: position in ChatPoller.run
    displayed_ids,  \* chat_session.displayed_ids
    last_id,        \* chat_session.last_id, then poller.last_id
    stop_event,     \* stop_event.is_set()
    pRows,          \* poller: rows of the current batch not yet delivered
    lines,          \* chat_session.lines
    mSince,         \* main: the since_id argument of the manual reload
    mRows,          \* main: rows of the manual reload not yet delivered
    msgText,        \* chat_session.message_text
    mid,            \* chat_session.mid
    stdin_eof,      \* the input stream has reached end-of-file
    renders,        \* history: renders[id][path] = times id was rendered by path
    deleted,        \* history: ids in the conversation when a clear of this session succeeded
    typed,          \* history: the lines read for the entry, kept until the next begins
    inp,            \* history: the last read of the inner loop
    rl,             \* history: consecutive manual reloads
    diag,           \* history: diagnostic lines printed, by thread (see NoDiag)
    handed,         \* history: the id the poller last handed to on_new, 0 if none
    opened,         \* history: the ids rendered from the full history, in order
    print_lock      \* print_lock: "free", or the thread that holds it

vars == <<store, nextId, mpc, ppc, displayed_ids, last_id, stop_event, pRows,
          lines, mSince, mRows, msgText, mid, stdin_eof, renders, deleted,
          typed, inp, rl, diag, handed, opened, print_lock>>

NoReload == [stage |-> 0, curOk |-> FALSE, prevOk |-> FALSE, cnt |-> 0]
NoInput == [line |-> E, kind |-> "none", empty |-> TRUE]

\* diag.main: diagnostic lines the main thread has printed since its last
\* input() returned; diag.poller: those the poller thread has printed in its
\* current poll cycle
NoDiag == [main |-> 0, poller |-> 0]

\* fast_print, slow_print: "with print_lock" is entered by a thread that has n
\* lines to print only when no thread holds the lock
CanPrint(n) == IF n = 0 THEN TRUE ELSE print_lock = "free"

Rendered(i, path) == renders[i][path] > 0
TimesRendered(i) ==
    renders[i]["history"] + renders[i]["send"] + renders[i]["poller"] + renders[i]["reload"]
Render(rs, i, path) == [rs EXCEPT ![i][path] = @ + 1]

RECURSIVE RenderAll(_, _, _)
RenderAll(rs, rows, path) ==
    IF rows = <<>> THEN rs
    ELSE RenderAll(Render(rs, Head(rows), path), Tail(rows), path)

Active == mpc \in {"read", "r_fetch", "r_check", "r_add", "confirm", "clear_db",
                   "clear_ok", "insert", "sent"}
Terminating == mpc \in {"join", "finally", "finally_exc"}
Ended == mpc \in {"done", "raised"}

Init ==
    /\ store = {}
    /\ nextId = 1
    /\ mpc = "open"
    /\ ppc = "unstarted"
    /\ displayed_ids = {}
    /\ last_id = 0
    /\ stop_event = FALSE
    /\ pRows = <<>>
    /\ lines = <<>>
    /\ mSince = 0
    /\ mRows = <<>>
    /\ msgText = <<>>
    /\ mid = 0
    /\ stdin_eof = FALSE
    /\ renders = [i \in Ids |-> [p \in Paths |-> 0]]
    /\ deleted = {}
    /\ typed = <<>>
    /\ inp = NoInput
    /\ rl = NoReload
    /\ diag = NoDiag
    /\ handed = 0
    /\ opened = <<>>
    /\ print_lock = "free"

\* a write to the store by anyone ends a run of consecutive reloads
StoreChanged == rl' = NoReload

\* ----------------------------------------------------- the other parties
\* A row written to the conversation outside this session: by the partner at
\* any time, or by an earlier session of the user.
EnvInsert ==
    /\ nextId <= MaxMsgs
    /\ store' = store \cup {nextId}
    /\ nextId' = nextId + 1
    /\ StoreChanged
    /\ UNCHANGED <<mpc, ppc, displayed_ids, last_id, stop_event, pRows, lines,
                   mSince, mRows, msgText, mid, stdin_eof, renders, deleted,
                   typed, inp,
                   diag, handed, opened, print_lock>>

\* ------------------------------------------------- chat_session: opening
\* history fetch, render of the history, construction and start of the poller
OpenSession(res) ==
    /\ mpc = "open"
    /\ CanPrint(1)
    /\ LET history == get_chat_history_all(store, res = "ok")
       IN /\ displayed_ids' = SeqIds(history)
          /\ last_id' = HistoryLastId(history)
          /\ renders' = RenderAll(renders, history, "history")
          /\ opened' = history
    /\ diag' = [diag EXCEPT !.main = ConnectDiag(res)]
    /\ ppc' = "top"
    /\ mpc' = "read"
    /\ UNCHANGED <<store, nextId, stop_event, pRows, lines, mSince, mRows,
                   msgText, mid, stdin_eof, deleted, typed, inp, rl, handed,
                   print_lock>>

\* ------------------------------------------- chat_session: reading a line
\* line = input(), or "=" on KeyboardInterrupt / EOFError
LineRead(line, kind) == IF kind = "line" THEN line ELSE LQ

ReadGuard(kind) ==
    /\ mpc = "read"
    /\ kind \in {"line", "intr", "eof"}
    /\ stdin_eof => kind = "eof"
    /\ stdin_eof' = (stdin_eof \/ kind = "eof")
    /\ diag' = [diag EXCEPT !.main = 0]

Seen(line, kind) == [line |-> LineRead(line, kind), kind |-> kind, empty |-> lines = <<>>]

\* "r" with no line accumulated: manual reload, since_id = poller.last_id
ReadReload(line, kind) ==
    /\ ReadGuard(kind)
    /\ IsReload(LineRead(line, kind), lines)
    /\ mSince' = last_id
    /\ mpc' = "r_fetch"
    /\ inp' = Seen(line, kind)
    /\ rl' = IF rl.stage >= 1
             THEN [stage |-> 2, curOk |-> FALSE, prevOk |-> rl.curOk, cnt |-> 0]
             ELSE [stage |-> 1, curOk |-> FALSE, prevOk |-> FALSE, cnt |-> 0]
    /\ typed' = <<>>
    /\ UNCHANGED <<store, nextId, ppc, displayed_ids, last_id, stop_event, pRows,
                   lines, mRows, msgText, mid, renders, deleted, handed, opened,
                   print_lock>>

\* "c" with no line accumulated: ask for confirmation
ReadClear(line, kind) ==
    /\ ReadGuard(kind)
    /\ IsClear(LineRead(line, kind), lines)
    /\ mpc' = "confirm"
    /\ inp' = Seen(line, kind)
    /\ rl' = NoReload
    /\ typed' = <<>>
    /\ UNCHANGED <<store, nextId, ppc, displayed_ids, last_id, stop_event, pRows,
                   lines, mSince, mRows, msgText, mid, renders, deleted, handed,
                   opened, print_lock>>

\* "=" with no line accumulated: stop_event.set(), then poller.join(timeout)
ReadQuit(line, kind) ==
    /\ ReadGuard(kind)
    /\ IsQuit(LineRead(line, kind), lines)
    /\ stop_event' = TRUE
    /\ mpc' = "join"
    /\ inp' = Seen(line, kind)
    /\ rl' = NoReload
    /\ typed' = <<>>
    /\ UNCHANGED <<store, nextId, ppc, displayed_ids, last_id, pRows, lines,
                   mSince, mRows, msgText, mid, renders, deleted, handed, opened,
                   print_lock>>

\* an empty line after an accumulated empty line: pop, break, and either
\* restart the entry (nothing left, or only whitespace) or go on to insert
ReadDoubleEnter(line, kind) ==
    /\ ReadGuard(kind)
    /\ ~IsCommand(LineRead(line, kind), lines)
    /\ IsDoubleEnter(LineRead(line, kind), lines)
    /\ LET popped == SubSeq(lines, 1, Len(lines) - 1)
           text == MessageText(popped)
       IN IF popped = <<>> \/ text = <<>>
          THEN /\ mpc' = "read"
               /\ lines' = <<>>
               /\ UNCHANGED msgText
          ELSE /\ mpc' = "insert"
               /\ lines' = popped
               /\ msgText' = text
    /\ typed' = Append(typed, [line |-> LineRead(line, kind), kind |-> kind])
    /\ inp' = Seen(line, kind)
    /\ rl' = NoReload
    /\ UNCHANGED <<store, nextId, ppc, displayed_ids, last_id, stop_event, pRows,
                   mSince, mRows, mid, renders, deleted, handed, opened,
                   print_lock>>

ReadAppendSkipsBlank(line, kind) ==
    /\ ReadGuard(kind)
    /\ ~IsCommand(LineRead(line, kind), lines)
    /\ ~IsDoubleEnter(LineRead(line, kind), lines)
    /\ Len(lines) < MaxLines
    /\ lines' = IF lines = <<>> /\ LineRead(line, kind) = E
                THEN lines ELSE Append(lines, LineRead(line, kind))
    /\ typed' = Append(IF lines = <<>> THEN <<>> ELSE typed,
                       [line |-> LineRead(line, kind), kind |-> kind])
    /\ inp' = Seen(line, kind)
    /\ rl' = NoReload
    /\ UNCHANGED <<store, nextId, mpc, ppc, displayed_ids, last_id, stop_event,
                   pRows, mSince, mRows, msgText, mid, renders, deleted, handed,
                   opened, print_lock>>

\* any other line: lines.append(line)
ReadAppend(line, kind) ==
    /\ ReadGuard(kind)
    /\ ~IsCommand(LineRead(line, kind), lines)
    /\ ~IsDoubleEnter(LineRead(line, kind), lines)
    /\ Len(lines) < MaxLines
    /\ lines' = Append(lines, LineRead(line, kind))
    /\ typed' = Append(IF lines = <<>> THEN <<>> ELSE typed,
                       [line |-> LineRead(line, kind), kind |-> kind])
    /\ inp' = Seen(line, kind)
    /\ rl' = NoReload
    /\ UNCHANGED <<store, nextId, mpc, ppc, displayed_ids, last_id, stop_event,
                   pRows, mSince, mRows, msgText, mid, renders, deleted, handed,
                   opened, print_lock>>

Read(line, kind) ==
    \/ ReadReload(line, kind)
    \/ ReadClear(line, kind)
    \/ ReadQuit(line, kind)
    \/ ReadDoubleEnter(line, kind)
    \/ ReadAppend(line, kind)

\* --------------------------------------------- chat_session: manual reload
AfterRow(rows) == IF Tail(rows) = <<>> THEN "read" ELSE "r_check"

\* rl when a reload returns: a second reload that rendered nothing is the
\* first of the next pair
ReloadDone(r) ==
    IF r.stage = 2 /\ r.cnt = 0
    THEN [stage |-> 1, curOk |-> r.curOk, prevOk |-> FALSE, cnt |-> 0]
    ELSE r

ReloadFetch(res) ==
    /\ mpc = "r_fetch"
    /\ CanPrint(ConnectDiag(res))
    /\ LET rows == get_chat_history_since(store, mSince, res = "ok")
       IN /\ mRows' = rows
          /\ mpc' = IF rows = <<>> THEN "read" ELSE "r_check"
          /\ rl' = LET r == IF rl.stage >= 1
                             THEN [rl EXCEPT !.curOk = (res = "ok")] ELSE rl
                   IN IF rows = <<>> THEN ReloadDone(r) ELSE r
    /\ mSince' = 0
    /\ diag' = [diag EXCEPT !.main = ConnectDiag(res)]
    /\ UNCHANGED <<store, nextId, ppc, displayed_ids, last_id, stop_event, pRows,
                   lines, msgText, mid, stdin_eof, renders, deleted, typed, inp,
                   handed, opened, print_lock>>

\* on_new called by the main thread: the membership test
ReloadCheck ==
    /\ mpc = "r_check"
    /\ IF AlreadyDisplayed(Head(mRows), displayed_ids)
       THEN /\ mRows' = Tail(mRows)
            /\ mpc' = AfterRow(mRows)
            /\ rl' = IF Tail(mRows) = <<>> THEN ReloadDone(rl) ELSE rl
       ELSE /\ mpc' = "r_add"
            /\ UNCHANGED <<mRows, rl>>
    /\ UNCHANGED <<store, nextId, ppc, displayed_ids, last_id, stop_event, pRows,
                   lines, mSince, msgText, mid, stdin_eof, renders, deleted,
                   typed, inp, diag, handed, opened, print_lock>>

\* on_new called by the main thread: displayed_ids.add(rid) and the print
ReloadAdd ==
    /\ mpc = "r_add"
    /\ CanPrint(1)
    /\ displayed_ids' = displayed_ids \cup {Head(mRows)}
    /\ renders' = Render(renders, Head(mRows), "reload")
    /\ rl' = IF rl.stage = 2 THEN [rl EXCEPT !.cnt = @ + 1] ELSE rl
    /\ mRows' = Tail(mRows)
    /\ mpc' = AfterRow(mRows)
    /\ UNCHANGED <<store, nextId, ppc, last_id, stop_event, pRows, lines, mSince,
                   msgText, mid, stdin_eof, deleted, typed, inp,
                   diag, handed, opened, print_lock>>

\* ------------------------------------------------- chat_session: clearing
\* confirm = input(...).strip().lower(); an interrupt or end-of-file here is
\* not caught by the inner try and leaves through the finally block
Confirm(answer, kind) ==
    /\ mpc = "confirm"
    /\ kind \in {"line", "intr", "eof"}
    /\ stdin_eof => kind = "eof"
    /\ stdin_eof' = (stdin_eof \/ kind = "eof")
    /\ IF kind # "line"
       THEN /\ stop_event' = TRUE
            /\ mpc' = "finally_exc"
            /\ UNCHANGED lines
       ELSE /\ mpc' = IF lower(strip(answer)) = <<"y">> THEN "clear_db" ELSE "read"
            /\ lines' = <<>>
            /\ UNCHANGED stop_event
    /\ UNCHANGED <<store, nextId, ppc, displayed_ids, last_id, pRows, mSince,
                   mRows, msgText, mid, renders, deleted, typed, inp, rl,
                   diag, handed, opened, print_lock>>

ClearDbIgnoresResult(res) ==
    /\ mpc = "clear_db"
    /\ CanPrint(IF res = "ok" THEN 0 ELSE ConnectDiag(res) + 1)
    /\ store' = clear_chat_between(store, res = "ok")
    /\ deleted' = IF res = "ok" THEN deleted \cup store ELSE deleted
    /\ mpc' = "clear_ok"
    /\ IF res = "ok" THEN StoreChanged ELSE UNCHANGED rl
    /\ diag' = [diag EXCEPT !.main = IF res = "ok" THEN 0 ELSE ConnectDiag(res) + 1]
    /\ UNCHANGED <<nextId, ppc, displayed_ids, last_id, stop_event, pRows, lines,
                   mSince, mRows, msgText, mid, stdin_eof, renders, typed, inp,
                   handed, opened, print_lock>>

\* ok, err = clear_chat_between(...); "Clear chat failed: ..." when not ok
ClearDb(res) ==
    /\ mpc = "clear_db"
    /\ CanPrint(IF res = "ok" THEN 0 ELSE ConnectDiag(res) + 1)
    /\ store' = clear_chat_between(store, res = "ok")
    /\ deleted' = IF res = "ok" THEN deleted \cup store ELSE deleted
    /\ mpc' = IF res = "ok" THEN "clear_ok" ELSE "read"
    /\ IF res = "ok" THEN StoreChanged ELSE UNCHANGED rl
    /\ diag' = [diag EXCEPT !.main = IF res = "ok" THEN 0 ELSE ConnectDiag(res) + 1]
    /\ UNCHANGED <<nextId, ppc, displayed_ids, last_id, stop_event, pRows, lines,
                   mSince, mRows, msgText, mid, stdin_eof, renders, typed, inp,
                   handed, opened, print_lock>>

ClearLocalResetsWatermark ==
    /\ mpc = "clear_ok"
    /\ CanPrint(1)
    /\ displayed_ids' = {}
    /\ last_id' = 0
    /\ lines' = <<>>
    /\ mpc' = "read"
    /\ UNCHANGED <<store, nextId, ppc, stop_event, pRows, mSince, mRows, msgText,
                   mid, stdin_eof, renders, deleted, typed, inp, rl, diag, handed,
                   opened, print_lock>>

\* "Chat cleared." then displayed_ids.clear()
ClearLocal ==
    /\ mpc = "clear_ok"
    /\ CanPrint(1)
    /\ displayed_ids' = {}
    /\ lines' = <<>>
    /\ mpc' = "read"
    /\ UNCHANGED <<store, nextId, ppc, last_id, stop_event, pRows, mSince, mRows,
                   msgText, mid, stdin_eof, renders, deleted, typed, inp, rl,
                   diag, handed, opened, print_lock>>

\* -------------------------------------------------- chat_session: sending
\* insert_message_returning_id commits the row and returns its id
InsertOk ==
    /\ mpc = "insert"
    /\ nextId <= MaxMsgs
    /\ store' = store \cup {nextId}
    /\ nextId' = nextId + 1
    /\ mid' = nextId
    /\ mpc' = "sent"
    /\ StoreChanged
    /\ UNCHANGED <<ppc, displayed_ids, last_id, stop_event, pRows, lines, mSince,
                   mRows, msgText, stdin_eof, renders, deleted, typed, inp,
                   diag, handed, opened, print_lock>>

InsertFailReturns(res) ==
    /\ mpc = "insert"
    /\ CanPrint(1)
    /\ res \in Failures
    /\ mid' = 0
    /\ msgText' = <<>>
    /\ mpc' = "finally"
    /\ stop_event' = TRUE
    /\ diag' = [diag EXCEPT !.main = ConnectDiag(res) + 1]
    /\ UNCHANGED <<store, nextId, ppc, displayed_ids, last_id, pRows, lines,
                   mSince, mRows, stdin_eof, renders, deleted, typed, inp, rl,
                   handed, opened, print_lock>>

\* connection or statement failure: (None, reason), "Send failed", continue
InsertFail(res) ==
    /\ mpc = "insert"
    /\ CanPrint(1)
    /\ res \in Failures
    /\ mid' = 0
    /\ msgText' = <<>>
    /\ lines' = <<>>
    /\ typed' = <<>>
    /\ mpc' = "read"
    /\ diag' = [diag EXCEPT !.main = ConnectDiag(res) + 1]
    /\ UNCHANGED <<store, nextId, ppc, displayed_ids, last_id, stop_event, pRows,
                   mSince, mRows, stdin_eof, renders, deleted, inp, rl, handed,
                   opened, print_lock>>

\* the row is committed but cur.close() / conn.close() raises: (None, reason)
InsertLost ==
    /\ mpc = "insert"
    /\ CanPrint(1)
    /\ nextId <= MaxMsgs
    /\ store' = store \cup {nextId}
    /\ nextId' = nextId + 1
    /\ mid' = 0
    /\ msgText' = <<>>
    /\ lines' = <<>>
    /\ typed' = <<>>
    /\ mpc' = "read"
    /\ StoreChanged
    /\ diag' = [diag EXCEPT !.main = 1]
    /\ UNCHANGED <<ppc, displayed_ids, last_id, stop_event, pRows, mSince, mRows,
                   stdin_eof, renders, deleted, inp, handed, opened,
                   print_lock>>

\* displayed_ids.add(mid) and the print of the sent message
SendLocal ==
    /\ mpc = "sent"
    /\ CanPrint(1)
    /\ displayed_ids' = displayed_ids \cup {mid}
    /\ renders' = Render(renders, mid, "send")
    /\ mid' = 0
    /\ msgText' = <<>>
    /\ lines' = <<>>
    /\ typed' = <<>>
    /\ mpc' = "read"
    /\ UNCHANGED <<store, nextId, ppc, last_id, stop_event, pRows, mSince, mRows,
                   stdin_eof, deleted, inp, rl,
                   diag, handed, opened, print_lock>>

\* ------------------------------------------------- chat_session: leaving
\* poller.join(timeout=1.0) of the quit branch returns; the return statement
\* enters the finally block, which sets stop_event again and joins again
Join(timedOut) ==
    /\ mpc = "join"
    /\ JoinReturns(ppc = "exited", timedOut)
    /\ stop_event' = TRUE
    /\ mpc' = "finally"
    /\ UNCHANGED <<store, nextId, ppc, displayed_ids, last_id, pRows, lines,
                   mSince, mRows, msgText, mid, stdin_eof, renders, deleted,
                   typed, inp, rl,
                   diag, handed, opened, print_lock>>

\* poller.join(timeout=1.0) of the finally block returns; chat_session returns
\* to its caller, or the pending exception goes on to the caller
Finally(timedOut) ==
    /\ mpc \in {"finally", "finally_exc"}
    /\ JoinReturns(ppc = "exited", timedOut)
    /\ mpc' = IF mpc = "finally" THEN "done" ELSE "raised"
    /\ UNCHANGED <<store, nextId, ppc, displayed_ids, last_id, stop_event, pRows,
                   lines, mSince, mRows, msgText, mid, stdin_eof, renders,
                   deleted, typed, inp, rl,
                   diag, handed, opened, print_lock>>

\* ------------------------------------------------------- ChatPoller.run
PollerTopNoCheck ==
    /\ ppc = "top"
    /\ ppc' = "fetch"
    /\ diag' = [diag EXCEPT !.poller = 0]
    /\ UNCHANGED <<store, nextId, mpc, displayed_ids, last_id, stop_event, pRows,
                   lines, mSince, mRows, msgText, mid, stdin_eof, renders,
                   deleted, typed, inp, rl, handed, opened, print_lock>>

\* while not self.stop_event.is_set()
PollerTop ==
    /\ ppc = "top"
    /\ ppc' = IF stop_event THEN "exited" ELSE "fetch"
    /\ diag' = [diag EXCEPT !.poller = 0]
    /\ UNCHANGED <<store, nextId, mpc, displayed_ids, last_id, stop_event, pRows,
                   lines, mSince, mRows, msgText, mid, stdin_eof, renders,
                   deleted, typed, inp, rl, handed, opened, print_lock>>

AfterPollerRow(rows) == IF Tail(rows) = <<>> THEN "top" ELSE "advance"

PollerFetchRaises(res) ==
    /\ ppc = "fetch"
    /\ CanPrint(ConnectDiag(res))
    /\ LET rows == get_chat_history_since(store, last_id, res = "ok")
       IN /\ pRows' = rows
          /\ ppc' = IF res # "ok" THEN "exited"
                    ELSE IF rows = <<>> THEN "top" ELSE "advance"
    /\ diag' = [diag EXCEPT !.poller = ConnectDiag(res)]
    /\ UNCHANGED <<store, nextId, mpc, displayed_ids, last_id, stop_event, lines,
                   mSince, mRows, msgText, mid, stdin_eof, renders, deleted,
                   typed, inp, rl, handed, opened, print_lock>>

\* rows = get_chat_history_since(..., self.last_id); no rows: sleep, loop
PollerFetch(res) ==
    /\ ppc = "fetch"
    /\ CanPrint(ConnectDiag(res))
    /\ LET rows == get_chat_history_since(store, last_id, res = "ok")
       IN /\ pRows' = rows
          /\ ppc' = IF rows = <<>> THEN "top" ELSE "advance"
    /\ diag' = [diag EXCEPT !.poller = ConnectDiag(res)]
    /\ UNCHANGED <<store, nextId, mpc, displayed_ids, last_id, stop_event, lines,
                   mSince, mRows, msgText, mid, stdin_eof, renders, deleted,
                   typed, inp, rl, handed, opened, print_lock>>

PollerFetchOk == PollerFetch("ok")
PollerFetchFail(F) == \E res \in F : PollerFetch(res)

\* if rid > self.last_id: self.last_id = rid, then the call of self.on_new
PollerAdvance ==
    /\ ppc = "advance"
    /\ last_id' = Advance(last_id, Head(pRows))
    /\ handed' = Head(pRows)
    /\ ppc' = "check"
    /\ UNCHANGED <<store, nextId, mpc, displayed_ids, stop_event, pRows, lines,
                   mSince, mRows, msgText, mid, stdin_eof, renders, deleted,
                   typed, inp, rl, diag, opened, print_lock>>

\* on_new called by the poller: the membership test
PollerCheck ==
    /\ ppc = "check"
    /\ IF AlreadyDisplayed(Head(pRows), displayed_ids)
       THEN /\ pRows' = Tail(pRows)
            /\ ppc' = AfterPollerRow(pRows)
       ELSE /\ ppc' = "add"
            /\ UNCHANGED pRows
    /\ UNCHANGED <<store, nextId, mpc, displayed_ids, last_id, stop_event, lines,
                   mSince, mRows, msgText, mid, stdin_eof, renders, deleted,
                   typed, inp, rl, diag, handed, opened, print_lock>>

\* on_new called by the poller: displayed_ids.add(rid) and the print; after
\* the last row of the batch, sleep and loop
PollerAdd ==
    /\ ppc = "add"
    /\ CanPrint(1)
    /\ displayed_ids' = displayed_ids \cup {Head(pRows)}
    /\ renders' = Render(renders, Head(pRows), "poller")
    /\ pRows' = Tail(pRows)
    /\ ppc' = AfterPollerRow(pRows)
    /\ UNCHANGED <<store, nextId, mpc, last_id, stop_event, lines, mSince, mRows,
                   msgText, mid, stdin_eof, deleted, typed, inp, rl,
                   diag, handed, opened, print_lock>>

\* on_new at the grain of print_lock.  slow_print sleeps after every character
\* while it holds the lock, so the lock is held from one step to a later one.
\* displayed_ids.add(rid)
PollerAddId ==
    /\ ppc = "add"
    /\ displayed_ids' = displayed_ids \cup {Head(pRows)}
    /\ ppc' = "print"
    /\ UNCHANGED <<store, nextId, mpc, last_id, stop_event, pRows, lines, mSince,
                   mRows, msgText, mid, stdin_eof, renders, deleted, typed, inp,
                   rl, diag, handed, opened, print_lock>>

\* slow_print: the lock is taken and the line is being written
PollerPrintBegin ==
    /\ ppc = "print"
    /\ print_lock = "free"
    /\ print_lock' = "poller"
    /\ renders' = Render(renders, Head(pRows), "poller")
    /\ ppc' = "printing"
    /\ UNCHANGED <<store, nextId, mpc, displayed_ids, last_id, stop_event, pRows,
                   lines, mSince, mRows, msgText, mid, stdin_eof, deleted, typed,
                   inp, rl, diag, handed, opened>>

PollerPrintKeepsLock ==
    /\ ppc = "printing"
    /\ ppc' = "stamp"
    /\ UNCHANGED <<store, nextId, mpc, displayed_ids, last_id, stop_event, pRows,
                   lines, mSince, mRows, msgText, mid, stdin_eof, renders,
                   deleted, typed, inp, rl, diag, handed, opened, print_lock>>

\* slow_print: the line is written, the lock is released
PollerPrintEnd ==
    /\ ppc = "printing"
    /\ print_lock' = "free"
    /\ ppc' = "stamp"
    /\ UNCHANGED <<store, nextId, mpc, displayed_ids, last_id, stop_event, pRows,
                   lines, mSince, mRows, msgText, mid, stdin_eof, renders,
                   deleted, typed, inp, rl, diag, handed, opened>>

\* fast_print of the timestamp; after the last row of the batch, sleep and loop
PollerStamp ==
    /\ ppc = "stamp"
    /\ CanPrint(1)
    /\ pRows' = Tail(pRows)
    /\ ppc' = AfterPollerRow(pRows)
    /\ UNCHANGED <<store, nextId, mpc, displayed_ids, last_id, stop_event, lines,
                   mSince, mRows, msgText, mid, stdin_eof, renders, deleted,
                   typed, inp, rl, diag, handed, opened, print_lock>>

\* the steps of the poller thread, its fetches failing in the ways of F
PollerSteps(F) ==
    \/ PollerTop
    \/ PollerFetchOk
    \/ PollerFetchFail(F)
    \/ PollerAdvance
    \/ PollerCheck
    \/ PollerAdd

PollerStep == PollerSteps(Failures)

\* ------------------------------------------------------- specifications
Answers == {<<"y">>, <<"n">>}

\* Spec: both threads and the partner.  The user enters commands and
\* one-line messages and does not interrupt the session.
SyncLines == IF lines = <<>> THEN {LR, LC, LQ, HELLO} ELSE {E}

\* the steps of the main thread, its store calls failing in the ways of F
MainSteps(F) ==
    \/ \E res \in {"ok"} \cup F : OpenSession(res)
    \/ \E line \in SyncLines : Read(line, "line")
    \/ \E res \in {"ok"} \cup F : ReloadFetch(res)
    \/ ReloadCheck
    \/ ReloadAdd
    \/ \E a \in Answers : Confirm(a, "line")
    \/ \E res \in {"ok"} \cup F : ClearDb(res)
    \/ ClearLocal
    \/ InsertOk
    \/ \E res \in F : InsertFail(res)
    \/ InsertLost
    \/ SendLocal
    \/ \E t \in BOOLEAN : Join(t)
    \/ \E t \in BOOLEAN : Finally(t)

MainStep == MainSteps(Failures)

EnvStep == EnvInsert

Next ==
    \/ MainStep
    \/ PollerStep
    \/ EnvStep

Spec == Init /\ [][Next]_vars

\* The specifications with fairness: the same steps, every failing store call
\* being one that connects and then fails in its statement.  The two kinds of
\* failure differ only in the line connect_db prints, which only diag records.
StatementFailures == {"error"}

NextFair ==
    \/ MainSteps(StatementFailures)
    \/ PollerSteps(StatementFailures)
    \/ EnvStep

\* The poller thread is scheduled fairly and its fetches succeed infinitely
\* often; nothing is assumed of the user or of the partner.
PollerFair ==
    /\ WF_vars(PollerTop)
    /\ SF_vars(PollerFetchOk)
    /\ WF_vars(PollerAdvance)
    /\ WF_vars(PollerCheck)
    /\ WF_vars(PollerAdd)

SpecPollerFair == Init /\ [][NextFair]_vars /\ PollerFair

\* The main thread is scheduled fairly once it has left the input loop;
\* nothing is assumed of the poller thread.
MainFair ==
    /\ WF_vars(\E t \in BOOLEAN : Join(t))
    /\ WF_vars(\E t \in BOOLEAN : Finally(t))

SpecMainFair == Init /\ [][NextFair]_vars /\ MainFair

\* SpecCompose: the composition reader on its own.  The user enters any of
\* ComposeLines, and an interrupt or end-of-file can arrive at any read; the
\* store is unreachable, so every store call of the main thread fails, and
\* the poller thread is not scheduled.
ComposeLines == {E, SP, LR, LRU, LC, LQ, HELLO, WORLD}
Interrupts == {"intr", "eof"}

NextCompose ==
    \/ \E res \in Results : OpenSession(res)
    \/ \E line \in ComposeLines : Read(line, "line")
    \/ \E k \in Interrupts : Read(LQ, k)
    \/ \E res \in Failures : ReloadFetch(res)
    \/ \E a \in Answers : Confirm(a, "line")
    \/ \E k \in Interrupts : Confirm(E, k)
    \/ \E res \in Failures : ClearDb(res)
    \/ \E res \in Failures : InsertFail(res)
    \/ \E t \in BOOLEAN : Join(t)
    \/ \E t \in BOOLEAN : Finally(t)

SpecCompose == Init /\ [][NextCompose]_vars

\* SpecPrint: a session in which the user clears the conversation and quits
\* while the partner writes, with on_new at the grain of print_lock: the
\* poller holds the lock while slow_print writes a line, and every print of
\* either thread waits for the lock.  The poller is scheduled fairly and its
\* fetch returns; nothing is assumed of the user or of the partner.
PollerPrintSteps ==
    \/ PollerTop
    \/ \E res \in Results : PollerFetch(res)
    \/ PollerAdvance
    \/ PollerCheck
    \/ PollerAddId
    \/ PollerPrintBegin
    \/ PollerPrintEnd
    \/ PollerStamp

NextPrint ==
    \/ \E res \in Results : OpenSession(res)
    \/ ReadClear(LC, "line")
    \/ ReadQuit(LQ, "line")
    \/ \E a \in Answers : Confirm(a, "line")
    \/ \E res \in Results : ClearDb(res)
    \/ ClearLocal
    \/ \E t \in BOOLEAN : Join(t)
    \/ \E t \in BOOLEAN : Finally(t)
    \/ PollerPrintSteps
    \/ EnvStep

PollerPrintFair ==
    /\ WF_vars(PollerTop)
    /\ WF_vars(\E res \in Results : PollerFetch(res))
    /\ WF_vars(PollerAdvance)
    /\ WF_vars(PollerCheck)
    /\ WF_vars(PollerAddId)
    /\ WF_vars(PollerPrintBegin)
    /\ WF_vars(PollerPrintEnd)
    /\ WF_vars(PollerStamp)

SpecPrint == Init /\ [][NextPrint]_vars /\ PollerPrintFair

\* ------------------------------------------------------------- claims
RenderedAny(i) == TimesRendered(i) > 0

\* ids returned to this session by a successful insert
Sent(i) == Rendered(i, "send") \/ (mpc = "sent" /\ mid = i)

\* a step of the inner loop that consumed a line
ReadStep == mpc = "read" /\ (lines' # lines \/ mpc' # mpc)

\* a step of the inner loop that acted on a command
CommandStep == mpc = "read" /\ mpc' \in {"r_fetch", "confirm", "join"}

IsToken(line) == lower(strip(line)) \in {LR, LC} \/ strip(line) = LQ

TypedLines == [k \in 1..Len(typed) |-> typed[k].line]

\* a step in which insert_message_returning_id returns no id
SendFailed == mpc = "insert" /\ mpc' # "insert" /\ mid' = 0

\* a step that reads the empty line of a double enter
EntryEnded ==
    ReadStep /\ inp'.line = E /\ lines # <<>> /\ lines[Len(lines)] = E

Started == ppc \notin {"unstarted", "exited"}

\* the poller is between its fetch and the end of its deliveries
InFlight == ppc \in {"advance", "check", "add", "print", "printing", "stamp"}

\* a step of the clear command: the answer, the delete, the local clear
ClearStep == mpc \in {"confirm", "clear_db", "clear_ok"} /\ mpc' # mpc

IsAscending(rows) == \A k \in 1..(Len(rows) - 1) : rows[k] < rows[k + 1]

MaxOf(S) == IF S = {} THEN 0 ELSE CHOOSE m \in S : \A q \in S : q <= m

\* C1: every message id is rendered at most once in a session, over all
\* paths (initial history, send path, poller callback, manual reload).
C1_RenderedAtMostOnce == \A i \in Ids : TimesRendered(i) <= 1

\* C2: a message that is in the store while the session is Active is
\* eventually rendered, unless a clear removes it or the session leaves
\* Active; the poller is scheduled fairly and its fetches eventually succeed.
C2_NoOmission ==
    \A i \in Ids :
        (i \in store /\ Active) ~> (RenderedAny(i) \/ i \notin store \/ ~Active)

C2_Witness == \E i \in Ids : Rendered(i, "poller") /\ Active /\ i \in store

\* C3: the id returned by a successful local send is in displayed_ids when the
\* poller tests it, and a message sent by this session is never rendered by
\* the poller callback.
C3_SendEchoSuppressed ==
    \A i \in Ids :
        Sent(i) =>
            /\ ~Rendered(i, "poller")
            /\ (ppc = "check" /\ Head(pRows) = i) => i \in displayed_ids

\* C4 (as claimed): the watermark poller.last_id is at least the id of every
\* message rendered so far, by any path.
C4_WatermarkCoversRendered == \A i \in Ids : RenderedAny(i) => last_id >= i

\* C4 (amended): the watermark poller.last_id is at least the id of every
\* message rendered from the initial history or by the poller callback.
C4_WatermarkCoversPolled ==
    \A i \in Ids : (Rendered(i, "history") \/ Rendered(i, "poller")) => last_id >= i

C4_Witness == \E i \in Ids : Rendered(i, "poller") /\ last_id = i /\ i > 1

C6_ClearEmpties ==
    [][ /\ (mpc = "clear_ok" /\ mpc' = "read") => displayed_ids' = {}
        /\ (ppc = "fetch" /\ ppc' # "fetch") => SeqIds(pRows') \cap deleted = {}
        /\ (mpc = "r_fetch" /\ mpc' # "r_fetch") => SeqIds(mRows') \cap deleted = {}
        /\ SeqIds(get_chat_history_all(store', TRUE)) \cap deleted' = {} ]_vars

C6_Witness == deleted # {} /\ ppc = "advance" /\ SeqIds(pRows) \cap deleted = {}

\* C7: an entry that reaches the insert was ended by an empty line directly
\* after an accumulated empty line; that trailing blank is dropped and the
\* body is the stripped newline-join of the lines before it, blank lines
\* between them kept: hello, "", "" gives "hello" and hello, "", world, "", ""
\* gives "hello\n\nworld".
C7_DoubleBlankEnds ==
    mpc = "insert" =>
        LET n == Len(typed)
            ls == TypedLines
        IN /\ n >= 3
           /\ ls[n] = E
           /\ ls[n - 1] = E
           /\ lines = SubSeq(ls, 1, n - 2)
           /\ msgText = strip(join(SubSeq(ls, 1, n - 2)))
           /\ ls = <<HELLO, E, E>> => msgText = HELLO
           /\ ls = <<HELLO, E, WORLD, E, E>>
                  => msgText = HELLO \o <<"\n", "\n">> \o WORLD

C7_Witness ==
    /\ mpc = "insert"
    /\ TypedLines = <<HELLO, E, WORLD, E, E>>
    /\ msgText = HELLO \o <<"\n", "\n">> \o WORLD

\* C8: a command is acted on only for a token read while no line is
\* accumulated, and the token is then not added to the entry; a token read
\* after a line has been accumulated is appended verbatim and no command runs.
C8_CommandsOnlyWhenEmpty ==
    [][ /\ CommandStep => (lines = <<>> /\ IsToken(inp'.line) /\ lines' = <<>> /\ typed' = <<>>)
        /\ (ReadStep /\ lines = <<>> /\ IsToken(inp'.line)) => CommandStep
        /\ (ReadStep /\ lines # <<>> /\ IsToken(inp'.line))
              => (lines' = Append(lines, inp'.line) /\ mpc' = "read") ]_vars

C8_Witness == mpc = "insert" /\ \E k \in 2..Len(lines) : IsToken(lines[k])

\* C9: an interrupt or end-of-file at a read of the inner loop is handled as
\* the quit command in every reader state: the session is Terminating after
\* it, and no entry that was interrupted reaches the insert.
C9_InterruptQuits ==
    [][ /\ (ReadStep /\ inp'.kind \in {"intr", "eof"}) => (mpc' = "join" /\ stop_event')
        /\ mpc' = "insert" => \A k \in 1..Len(typed') : typed'[k].kind = "line" ]_vars

\* C10: on quit the stop signal is set, and the session returns to its caller
\* whether or not the poller thread has exited.
C10_QuitReturns ==
    /\ [](mpc \in {"join", "finally", "done"} => stop_event)
    /\ (mpc = "join") ~> (mpc = "done")

C10_Witness == mpc = "done" /\ ppc # "exited"

\* C11: the poller leaves its loop only when the stop signal is set; a fetch
\* that fails (no connection, or the query raises) gives the poller an empty
\* result, changes neither the watermark nor displayed_ids, renders nothing,
\* and the poller goes on to its next cycle.
C11_PollerEndsOnlyOnStop ==
    /\ [](ppc = "exited" => stop_event)
    /\ [][ PollerFetchFail(Failures)
              => /\ pRows' = <<>>
                 /\ ppc' = "top"
                 /\ UNCHANGED <<last_id, displayed_ids, renders, stop_event>> ]_vars
    /\ [][ (ppc = "top" /\ ~stop_event) => ppc' \in {"top", "fetch"} ]_vars

C11_Witness ==
    /\ ppc = "top"
    /\ diag.poller = 1
    /\ pRows = <<>>
    /\ ~stop_event
    /\ \E i \in store : i > last_id

\* C12: a store failure in a poll cycle prints nothing: the poller thread
\* never prints a diagnostic.
C12_PollerSilent == diag.poller = 0

\* C13: when a send fails (the insert returns no id) nothing is rendered,
\* displayed_ids and the watermark are unchanged, no line is accumulated, and
\* the session is Active with its poller running.
C13_SendFailureKeepsSession ==
    [][ SendFailed
          => /\ UNCHANGED <<renders, displayed_ids, last_id, ppc, stop_event>>
             /\ lines' = <<>>
             /\ mpc' = "read"
             /\ ~stop_event'
             /\ Started' ]_vars

C13_Witness ==
    /\ mpc = "read"
    /\ lines = <<>>
    /\ inp.line = E
    /\ ~inp.empty
    /\ diag.main >= 1
    /\ mid = 0
    /\ Started

\* C14: an entry whose stripped newline-join is empty (no line, or only
\* blank and whitespace-only lines) is dropped: the insert is not called,
\* nothing is rendered and the next entry starts with no line; every body
\* handed to the insert is non-empty with no whitespace at either end.
C14_EmptyEntryDiscarded ==
    [][ /\ (EntryEnded /\ strip(join(SubSeq(lines, 1, Len(lines) - 1))) = <<>>)
              => /\ mpc' = "read"
                 /\ lines' = <<>>
                 /\ UNCHANGED <<store, nextId, mid, renders, displayed_ids>>
        /\ mpc' = "insert"
              => /\ msgText' # <<>>
                 /\ Head(msgText') \notin Whitespace
                 /\ msgText'[Len(msgText')] \notin Whitespace ]_vars

C14_Witness == mpc = "read" /\ lines = <<>> /\ TypedLines = <<SP, E, E>>

\* C15: the watermark poller.last_id never decreases: no step of the poller,
\* of a manual reload, of a send or of a clear (successful or not) lowers it,
\* and it is never below the value the session gave it at opening.
C15_WatermarkNeverDecreases ==
    /\ [][last_id' >= last_id]_vars
    /\ [](mpc # "open" => last_id >= MaxOf(SeqIds(opened)))

C15_Witness == deleted # {} /\ displayed_ids = {} /\ mpc = "read" /\ last_id >= 2

\* C16: the step that opens the session leaves displayed_ids equal to the
\* set of ids the full-history fetch returned (the whole conversation, or
\* nothing when the fetch failed), has rendered each of them once in
\* ascending id order and nothing else, and starts the poller with the
\* watermark at the largest of them, 0 when there is none.
C16_OpenSeedsFromHistory ==
    [][ (mpc = "open" /\ mpc' # "open")
          => /\ SeqIds(opened') \in {store, {}}
             /\ IsAscending(opened')
             /\ displayed_ids' = SeqIds(opened')
             /\ \A i \in Ids :
                    /\ renders'[i]["history"] = IF i \in SeqIds(opened') THEN 1 ELSE 0
                    /\ TimesRendered(i)' = renders'[i]["history"]
             /\ last_id' = MaxOf(SeqIds(opened'))
             /\ ppc = "unstarted"
             /\ ppc' = "top" ]_vars

C16_Witness ==
    /\ mpc = "read"
    /\ inp = NoInput
    /\ Len(opened) >= 2
    /\ displayed_ids = SeqIds(opened)
    /\ last_id = opened[Len(opened)]
    /\ ppc = "top"

\* C17: the poller takes the rows of a batch in ascending id order, raises
\* the watermark to max(watermark, id) and then calls on_new with the row;
\* the ids it hands to on_new over the session are strictly increasing, so
\* the poller never renders an id below one it has rendered.
C17_PollerHandsAscending ==
    [][ /\ (ppc = "fetch" /\ ppc' # "fetch") => IsAscending(pRows')
        /\ (ppc = "advance" /\ ppc' # "advance")
              => /\ last_id' = MaxOf({last_id, Head(pRows)})
                 /\ handed' = Head(pRows)
                 /\ handed' > handed
                 /\ ppc' = "check"
        /\ ppc # "advance" => handed' = handed
        /\ (ppc \in {"check", "add"} /\ ppc' \notin {"check", "add"})
              => (pRows # <<>> /\ Head(pRows) = handed /\ pRows' = Tail(pRows))
        /\ \A i \in Ids :
              renders'[i]["poller"] # renders[i]["poller"]
                  => (i = handed /\ \A j \in Ids : Rendered(j, "poller") => j <= i) ]_vars

C17_Witness ==
    /\ handed = 2
    /\ Rendered(1, "poller")
    /\ Rendered(2, "poller")
    /\ last_id = 2

\* C18: once the stop signal is set it stays set and the poller leaves its
\* loop, the poller being scheduled and its fetch returning: it tests the
\* signal at the top of every iteration, so it finishes the iteration it is
\* in and begins no other.
C18_StopEndsPoller ==
    /\ stop_event ~> (ppc = "exited")
    /\ [][stop_event => stop_event']_vars
    /\ [][ (stop_event /\ ppc = "top") => ppc' \in {"top", "exited"} ]_vars
    /\ [][ppc = "exited" => ppc' = "exited"]_vars

C18_Witness ==
    /\ stop_event
    /\ ppc = "exited"
    /\ mpc = "join"
    /\ pRows = <<>>

\* C20: the clear command empties displayed_ids only after the user has
\* confirmed and clear_chat_between has reported success; when the user
\* declines, or the delete fails, displayed_ids and the watermark are
\* unchanged (and the store too when the user declines); in all three cases
\* no line is accumulated afterwards and the session is Active.
C20_ClearOnlyOnConfirmedSuccess ==
    [][ /\ (displayed_ids # {} /\ displayed_ids' = {})
              => (mpc = "clear_ok" /\ diag.main = 0)
        /\ mpc' = "clear_ok" => (mpc \in {"clear_db", "clear_ok"} /\ diag'.main = 0)
        /\ mpc' = "clear_db" => mpc \in {"confirm", "clear_db"}
        /\ (mpc = "confirm" /\ mpc' = "read")
              => (UNCHANGED <<displayed_ids, last_id, store>> /\ lines' = <<>>)
        /\ (mpc = "clear_db" /\ mpc' # "clear_db" /\ diag'.main > 0)
              => (UNCHANGED <<displayed_ids, last_id>> /\ lines' = <<>> /\ mpc' = "read")
        /\ (mpc = "clear_ok" /\ mpc' # "clear_ok")
              => (displayed_ids' = {} /\ UNCHANGED last_id /\ lines' = <<>> /\ mpc' = "read")
        /\ (mpc \in {"confirm", "clear_db", "clear_ok"} /\ mpc' # mpc)
              => (Active' /\ ~stop_event' /\ Started') ]_vars

C20_Witness ==
    /\ mpc = "read"
    /\ inp.line = LC
    /\ diag.main >= 1
    /\ displayed_ids # {}
    /\ lines = <<>>

\* C19: a clear issued while a poll cycle is between its fetch and the end
\* of its deliveries neither ends nor blocks the poller: no step of the clear
\* touches the poller or the stop signal, a started poller always has a step
\* it can take, the cycle in flight finishes, and the poller goes on to
\* further fetches for as long as the session is Active.
C19_ClearDoesNotStallPoller ==
    /\ [][ClearStep => UNCHANGED <<ppc, pRows, stop_event, print_lock>>]_vars
    /\ [](Started => ENABLED PollerPrintSteps)
    /\ InFlight ~> (ppc = "top")
    /\ (ppc = "top" /\ Active) ~> (ppc = "fetch" \/ ~Active)

C19_Witness ==
    /\ mpc = "read"
    /\ ppc = "fetch"
    /\ ~stop_event
    /\ \E i \in deleted : i \in displayed_ids /\ Rendered(i, "poller")

\* a step in which the store call of a send, a manual reload or a clear fails
UserActionFailed ==
    \/ \E res \in Failures : InsertFail(res) \/ ReloadFetch(res) \/ ClearDb(res)
    \/ InsertLost

\* C21: every failure of an explicit user action (send, manual reload,
\* clear), by a failed connection or a failed operation, prints exactly one
\* diagnostic line and leaves the session Active and reading input.
C21_OneDiagnosticPerFailure ==
    [][ UserActionFailed
          => /\ diag'.main = 1
             /\ Active'
             /\ mpc' = "read"
             /\ ~stop_event' ]_vars

\* C22: once chat_session has returned to its caller (after quit and the
\* bounded join), the session's poller renders no further message and makes
\* no further change to displayed_ids.
C22_PollerQuietAfterReturn ==
    [][ mpc = "done" => UNCHANGED <<renders, displayed_ids>> ]_vars

\* no two neighbouring lines of ls are both the empty line
NoBlankPair(ls) == \A k \in 1..(Len(ls) - 1) : ~(ls[k] = E /\ ls[k + 1] = E)

\* C23: an empty line read while no line is accumulated is accumulated, so
\* that a command token read directly after it is appended as content and
\* no command runs; a second empty line directly after it instead ends the
\* entry with nothing sent and no line accumulated.  lines never holds two
\* consecutive empty lines.
C23_LeadingBlankAccumulated ==
    /\ TypedLines = <<E>> => (mpc = "read" /\ lines = <<E>>)
    /\ (Len(typed) = 2 /\ TypedLines[1] = E /\ IsToken(TypedLines[2]))
          => (mpc = "read" /\ lines = TypedLines)
    /\ TypedLines = <<E, E>> => (mpc = "read" /\ lines = <<>> /\ mid = 0)
    /\ NoBlankPair(lines)

C23_Witness ==
    /\ mpc = "insert"
    /\ TypedLines = <<E, LR, E, E>>
    /\ msgText = LR

====
